---------------------------- MODULE Spec2Model ----------------------------
(***************************************************************************)
(* A model of letterboxed-rs (src/src/main.rs): the Letter Boxed solver.   *)
(*                                                                         *)
(* Characters are Unicode code points (A = 65, a = 97, ',' = 44, ...), a   *)
(* String is a sequence of code points, a Vec<String> a sequence of such   *)
(* sequences.  Option<T> is a sequence of length 0 (None) or 1 (Some(x)).  *)
(***************************************************************************)
EXTENDS Integers, Sequences, FiniteSets, TLC

(***************************************************************************)
(* Bounds of the model.                                                    *)
(***************************************************************************)
\* longest word list (words.txt) explored by the run of main
MaxDict == 3
\* largest explicit --max-guesses explored (besides "not given")
MaxGuessesArg == 2
\* longest word list explored where termination is checked
MaxFairDict == 2
\* most comma-separated groups of a raw grid handed to Grid::new directly
MaxGroups == 5
\* longest dictionary handed to generate_words directly
MaxUnitDict == 2

(***************************************************************************)
(* Program constants.                                                      *)
(***************************************************************************)
DEFAULT_MAX_GUESSES == 6

(***************************************************************************)
(* Strings.                                                                *)
(***************************************************************************)
None == <<>>
Some(x) == <<x>>

Range(s) == {s[i] : i \in DOMAIN s}

\* F applied to the value of x: x is evaluated once, however often F uses it.
Bind(x, F(_)) == CHOOSE r \in {F(v) : v \in {x}} : TRUE

Comma == 44

\* String literals used as inputs, spelled as code points.
Str(names) ==
    LET cp == [A |-> 65, B |-> 66, C |-> 67, D |-> 68, E |-> 69, F |-> 70,
               G |-> 71, H |-> 72, I |-> 73, J |-> 74, K |-> 75, L |-> 76,
               X |-> 88, Y |-> 89, Z |-> 90,
               a |-> 97, b |-> 98, c |-> 99, d |-> 100, e |-> 101, f |-> 102,
               g |-> 103, h |-> 104, i |-> 105, j |-> 106, k |-> 107, l |-> 108,
               comma |-> 44, Eacute |-> 201, eacute |-> 233]
    IN  [n \in DOMAIN names |-> cp[names[n]]]

\* char::len_utf8: the number of bytes of a code point in a Rust String.
len_utf8(c) == IF c < 128 THEN 1 ELSE IF c < 2048 THEN 2 ELSE IF c < 65536 THEN 3 ELSE 4

\* str::len: the length of a String in BYTES.
RECURSIVE str_len(_)
str_len(s) == IF s = <<>> THEN 0 ELSE len_utf8(Head(s)) + str_len(Tail(s))

\* char::to_uppercase on the code points of the model (all map to one char).
char_to_uppercase(c) ==
    IF c >= 97 /\ c <= 122 THEN c - 32
    ELSE IF c >= 224 /\ c <= 254 /\ c # 247 THEN c - 32
    ELSE c

\* str::to_uppercase (main, line 194).
to_uppercase(s) == [i \in DOMAIN s |-> char_to_uppercase(s[i])]

\* The elements of a set of integers, in ascending order.
SetToSeqAsc(S) ==
    Bind(S, LAMBDA T :
        [i \in 1..Cardinality(T) |-> CHOOSE x \in T : Cardinality({y \in T : y < x}) = i - 1])

\* str::split(','): the groups between commas; always at least one group.
split(s) ==
    Bind(SetToSeqAsc({i \in DOMAIN s : s[i] = Comma}), LAMBDA commas :
        LET n        == Len(commas)
            start(k) == IF k = 1 THEN 1 ELSE commas[k - 1] + 1
            stop(k)  == IF k = n + 1 THEN Len(s) ELSE commas[k] - 1
        IN  [k \in 1..(n + 1) |-> SubSeq(s, start(k), stop(k))])

\* Ord for Vec<T> / String: lexicographic, a proper prefix is smaller.
\* Strings compare by bytes, which for UTF-8 is code point order.
RECURSIVE StrLess(_, _)
StrLess(s, t) ==
    IF t = <<>> THEN FALSE
    ELSE IF s = <<>> THEN TRUE
    ELSE IF Head(s) # Head(t) THEN Head(s) < Head(t)
    ELSE StrLess(Tail(s), Tail(t))

RECURSIVE PathLess(_, _)
PathLess(p, q) ==
    IF q = <<>> THEN FALSE
    ELSE IF p = <<>> THEN TRUE
    ELSE IF Head(p) # Head(q) THEN StrLess(Head(p), Head(q))
    ELSE PathLess(Tail(p), Tail(q))

(***************************************************************************)
(* Grid.                                                                   *)
(***************************************************************************)
\* enum Side, in the order of the `sides` array of Grid::new.
Sides == <<"Top", "Right", "Bottom", "Left">>

Min(a, b) == IF a < b THEN a ELSE b

\* Option::unwrap_or(DEFAULT_MAX_GUESSES)
unwrap_or_default(max_guesses) ==
    IF max_guesses = None THEN DEFAULT_MAX_GUESSES ELSE max_guesses[1]

\* Grid::new: zip pairs the four sides with the groups and stops at the
\* shorter of the two, so groups after the fourth are dropped.
Grid_new(grid, dictionary, max_guesses) ==
    Bind(split(grid), LAMBDA groups :
        LET n == Min(Len(Sides), Len(groups))
        IN  [words       |-> [s \in {Sides[k] : k \in 1..n} |->
                                groups[CHOOSE k \in 1..n : Sides[k] = s]],
             dictionary  |-> dictionary,
             all_letters |-> UNION {Range(groups[k]) : k \in 1..n},
             max_guesses |-> unwrap_or_default(max_guesses)])

\* A mutant of is_valid: the length of each side is not checked.
is_valid_any_length(g) ==
    /\ Cardinality(DOMAIN g.words) = 4
    /\ Cardinality(g.all_letters) = 12

\* Grid::is_valid
is_valid(g) ==
    /\ Cardinality(DOMAIN g.words) = 4
    /\ \A s \in DOMAIN g.words : Len(g.words[s]) = 3
    /\ Cardinality(g.all_letters) = 12

\* The iteration orders a HashMap<Side, _> may have: every order of its keys.
SideOrders(g) ==
    {o \in [1..Cardinality(DOMAIN g.words) -> DOMAIN g.words] :
        \A i, j \in DOMAIN o : i # j => o[i] # o[j]}

\* Grid::get_side: the first side, in the map's iteration order, holding
\* the letter.
get_side(g, order, letter) ==
    IF \E i \in DOMAIN order : letter \in Range(g.words[order[i]])
    THEN Some(order[CHOOSE i \in DOMAIN order :
                 /\ letter \in Range(g.words[order[i]])
                 /\ \A j \in 1..(i - 1) : letter \notin Range(g.words[order[j]])])
    ELSE None

\* What get_side returns for each letter of the grid under one iteration
\* order of the map.
side_lookup(g, order) == [letter \in g.all_letters |-> get_side(g, order, letter)]

\* The lookups that the iteration orders of the map give.
SideLookups(g) == {side_lookup(g, order) : order \in SideOrders(g)}

\* self.get_side(&letter), given what get_side returns for the grid's
\* letters; a letter that is on no side has no side.
side_of_letter(lookup, letter) ==
    IF letter \in DOMAIN lookup THEN lookup[letter] ELSE None

\* The for loop of Grid::is_valid_word, from letter i on.
RECURSIVE word_loop(_, _, _, _)
word_loop(lookup, word, i, last_side) ==
    IF i > Len(word) THEN TRUE
    ELSE Bind(side_of_letter(lookup, word[i]), LAMBDA side :
             IF side = None THEN FALSE
             ELSE IF side = last_side THEN FALSE
             ELSE word_loop(lookup, word, i + 1, side))

\* Grid::is_valid_word
is_valid_word(lookup, word) ==
    IF str_len(word) < 3 THEN FALSE
    ELSE word_loop(lookup, word, 1, None)

\* Grid::generate_words
generate_words(g, lookup) ==
    SelectSeq(g.dictionary, LAMBDA w : is_valid_word(lookup, w))

(***************************************************************************)
(* The search: solve_bfs.                                                  *)
(***************************************************************************)
\* The iteration orders of a HashSet<char> that the model distinguishes;
\* which one a given set has is not specified (RandomState).
HashSeeds == {"asc", "desc"}

Reverse(s) == [i \in DOMAIN s |-> s[Len(s) + 1 - i]]

\* used_letters.iter().copied().collect(): the letters in the set's order.
iter_collect(S, seed) ==
    IF seed = "asc" THEN SetToSeqAsc(S) ELSE Reverse(SetToSeqAsc(S))

\* A mutant of sort_unstable: the sort is left out.
sort_unstable_missing(v) == v

\* slice::sort_unstable on a Vec<char>
sort_unstable(v) == SortSeq(v, LAMBDA a, b : a < b)

\* The letters of a word: the HashSet filled by `for ch in word.chars()`.
word_letters(word) == Range(word)

\* Lines 138-139 and 161-163: the sorted vector of a set of used letters,
\* for every iteration order the set may have.
used_letters_vecs(S) == {sort_unstable(iter_collect(S, seed)) : seed \in HashSeeds}

\* The sequences that take their i-th element from the i-th set.
RECURSIVE Choices(_)
Choices(sets) ==
    IF sets = <<>> THEN {<<>>}
    ELSE {<<x>> \o rest : x \in Head(sets), rest \in Choices(Tail(sets))}

\* Ord of the tuple (count, used_letters_vec, path).
tuple_less(a, b) ==
    IF a[1] # b[1] THEN a[1] < b[1]
    ELSE IF a[2] # b[2] THEN StrLess(a[2], b[2])
    ELSE PathLess(a[3], b[3])

\* A mutant of entry_before: the Reverse wrapper is left out (a max-heap).
entry_before_max(a, b) == tuple_less(b, a)

\* A mutant of entry_before: only the count is compared, so entries of one
\* count leave the heap in the order they entered it.
entry_before_count(a, b) == a[1] < b[1]

\* BinaryHeap<Reverse<(usize, Vec<char>, Vec<String>)>>: pop yields the
\* smallest tuple; entry_before(a, b) iff a is popped strictly before b.
entry_before(a, b) == tuple_less(a, b)

\* BinaryHeap::push, for the entries es pushed by one loop.  The heap is
\* kept as the sequence of its entries in the order pop yields them.
heap_push_all(h, es) == SortSeq(h \o es, entry_before)

\* Lines 133-141: one entry per valid word, each word's HashSet in any of
\* its iteration orders: the sequences of entries the loop may push.
initial_entries(valid_words) ==
    Choices([i \in DOMAIN valid_words |->
        {<<1, vec, <<valid_words[i]>> >> :
            vec \in used_letters_vecs(word_letters(valid_words[i]))}])

\* A mutant of can_extend: a word already in the path may be used again.
can_extend_reuse(path, word) == word[1] = path[Len(path)][Len(path[Len(path)])]

\* A mutant of can_extend: the word need not start with the last letter of
\* the path.
can_extend_unchained(path, word) == word \notin Range(path)

\* Lines 154-155: the word starts with the last letter of the path's last
\* word and is not in the path.
can_extend(path, word) ==
    /\ word[1] = path[Len(path)][Len(path[Len(path)])]
    /\ word \notin Range(path)

\* Lines 153-168: the successors of a popped entry, in valid_words order,
\* each new set in any of its iteration orders: the sequences of entries
\* the loop may push.
successors(valid_words, count, used_letters, path) ==
    Bind(SelectSeq(valid_words, LAMBDA w : can_extend(path, w)), LAMBDA ext :
        Choices([i \in DOMAIN ext |->
            {<<count + 1, vec, Append(path, ext[i])>> :
                vec \in used_letters_vecs(used_letters \cup word_letters(ext[i]))}]))

\* Line 145: full coverage is decided by comparing the two sets' sizes.
is_full(g, used_letters) == Cardinality(used_letters) = Cardinality(g.all_letters)

\* Line 149
at_limit(g, count) == count >= g.max_guesses

\* Grid::is_solution_valid
is_solution_valid(g, solution) ==
    UNION {word_letters(solution[i]) : i \in DOMAIN solution} = g.all_letters

\* is_valid_args_length
is_valid_args_length(grid) == Len(split(grid)) = 4

\* A mutant of grid_accepted: main does not ask is_valid.
grid_accepted_skip(g) == TRUE

\* Line 196 of main: the grid is searched only if is_valid holds.
grid_accepted(g) == is_valid(g)

(***************************************************************************)
(* Inputs.                                                                 *)
(***************************************************************************)
GridABC == Str(<<"A","B","C","comma","D","E","F","comma","G","H","I","comma","J","K","L">>)
GridLower == Str(<<"a","b","c","comma","d","e","f","comma","g","h","i","comma","j","k","l">>)
GridThree == Str(<<"A","B","C","comma","D","E","F","comma","G","H","I">>)
GridFive == GridABC \o Str(<<"comma","A","B","C">>)
GridDup == Str(<<"A","B","C","comma","D","E","F","comma","G","H","I","comma","J","K","A">>)
GridEacute == Str(<<"Eacute","B","C","comma","D","E","F","comma","G","H","I","comma","J","K","L">>)

\* The raw --grid values a run of main is given.
RawGrids == {GridLower, GridThree, GridFive, GridDup}

WSolo == Str(<<"A","D","G","J","B","E","H","K","C","F","I","L">>)
WHead == Str(<<"A","D","G","J","B","E","H">>)
WTailK == Str(<<"H","K","C","F","I","L">>)
WTailL == Str(<<"H","L","C","F","I","K">>)
WBack == Str(<<"H","K","A">>)
WNoK == Str(<<"H","L","C","F","I","L">>)
WSameSide == Str(<<"A","B","D","G","J","E","H","K","C","F","I","L">>)

\* The lines words.txt may hold.
WordPool == {WSolo, WHead, WTailK, WTailL, WBack, WNoK, WSameSide}

SeqsUpTo(S, n) == UNION {[1..k -> S] : k \in 0..n}

MaxGuessesArgs == {None} \cup {Some(n) : n \in 0..MaxGuessesArg}

(***************************************************************************)
(* The run of main.                                                        *)
(***************************************************************************)
VARIABLES
    pc,            \* where main is
    rawGrid,       \* args.grid
    maxGuessesArg, \* args.max_guesses: Option<usize>
    wordList,      \* the lines of words.txt
    game,          \* Some(Grid) once Grid::new has run
    validWords,    \* valid_words of solve
    heap,          \* the BinaryHeap of solve_bfs
    bfsRet,        \* Some(the value solve_bfs returned) once it has returned
    result,        \* Some(the value Grid::solve returned) once it has returned
    output,        \* what main printed
    pushed,        \* number of heap.push calls so far
    popped,        \* number of entries heap.pop has yielded so far
    run,           \* which of the compared runs this is
    firstResult    \* the result of the first run, once a second one was started

vars == <<pc, rawGrid, maxGuessesArg, wordList, game, validWords, heap, bfsRet,
          result, output, pushed, popped, run, firstResult>>

inputs == <<rawGrid, maxGuessesArg, wordList>>

Fresh ==
    /\ pc = "start"
    /\ game = None
    /\ validWords = <<>>
    /\ heap = <<>>
    /\ bfsRet = None
    /\ result = None
    /\ output = ""
    /\ pushed = 0
    /\ popped = 0
    /\ run = 1
    /\ firstResult = None

Init ==
    /\ rawGrid \in RawGrids
    /\ maxGuessesArg \in MaxGuessesArgs
    /\ wordList \in SeqsUpTo(WordPool, MaxDict)
    /\ Fresh

\* main, lines 186-191: the grid must have four comma-separated groups.
CheckArgs ==
    /\ pc = "start"
    /\ IF is_valid_args_length(rawGrid)
       THEN /\ pc' = "load"
            /\ output' = output
       ELSE /\ pc' = "done"
            /\ output' = "invalid"
    /\ UNCHANGED <<inputs, game, validWords, heap, bfsRet, result, pushed,
                   popped, run, firstResult>>

\* main, lines 193-199: read the words, build the grid, ask is_valid.
Construct ==
    /\ pc = "load"
    /\ \E grid \in {to_uppercase(rawGrid)} :
       \E g \in {Grid_new(grid, wordList, maxGuessesArg)} :
          /\ game' = Some(g)
          /\ IF grid_accepted(g)
             THEN /\ pc' = "solve"
                  /\ output' = output
             ELSE /\ pc' = "done"
                  /\ output' = "invalid"
    /\ UNCHANGED <<inputs, validWords, heap, bfsRet, result, pushed, popped,
                   run, firstResult>>

\* Grid::solve line 118 and solve_bfs lines 131-141.
SolveStart ==
    /\ pc = "solve"
    /\ \E vw \in {generate_words(game[1], lookup) : lookup \in SideLookups(game[1])} :
         \E entries \in initial_entries(vw) :
            /\ validWords' = vw
            /\ heap' = heap_push_all(<<>>, entries)
            /\ pushed' = Len(entries)
    /\ pc' = "bfs"
    /\ UNCHANGED <<inputs, game, bfsRet, result, output, popped, run, firstResult>>

\* solve_bfs lines 143-147: the popped entry covers every letter.
BfsFound ==
    /\ pc = "bfs"
    /\ heap # <<>>
    /\ is_full(game[1], Range(Head(heap)[2]))
    /\ bfsRet' = Some(Some(Head(heap)[3]))
    /\ heap' = Tail(heap)
    /\ popped' = popped + 1
    /\ pc' = "ret"
    /\ UNCHANGED <<inputs, game, validWords, result, output, pushed, run, firstResult>>

\* solve_bfs lines 143-151: the popped entry is at the limit and is dropped.
BfsPrune ==
    /\ pc = "bfs"
    /\ heap # <<>>
    /\ ~is_full(game[1], Range(Head(heap)[2]))
    /\ at_limit(game[1], Head(heap)[1])
    /\ heap' = Tail(heap)
    /\ popped' = popped + 1
    /\ UNCHANGED <<pc, inputs, game, validWords, bfsRet, result, output, pushed,
                   run, firstResult>>

\* solve_bfs lines 143-169: the popped entry is expanded.
BfsExpand ==
    /\ pc = "bfs"
    /\ heap # <<>>
    /\ ~is_full(game[1], Range(Head(heap)[2]))
    /\ ~at_limit(game[1], Head(heap)[1])
    /\ \E e \in {Head(heap)} :
       \E succ \in successors(validWords, e[1], Range(e[2]), e[3]) :
          /\ heap' = heap_push_all(Tail(heap), succ)
          /\ pushed' = pushed + Len(succ)
    /\ popped' = popped + 1
    /\ UNCHANGED <<pc, inputs, game, validWords, bfsRet, result, output, run,
                   firstResult>>

\* solve_bfs lines 143 and 171: the heap is empty.
BfsExhausted ==
    /\ pc = "bfs"
    /\ heap = <<>>
    /\ bfsRet' = Some(None)
    /\ pc' = "ret"
    /\ UNCHANGED <<inputs, game, validWords, heap, result, output, pushed, popped,
                   run, firstResult>>

\* Grid::solve lines 120-128 and main lines 201-204.
SolveReturn ==
    /\ pc = "ret"
    /\ \E solution \in {bfsRet[1]} :
       \E r \in {IF solution # None /\ is_solution_valid(game[1], solution[1])
                 THEN solution ELSE None} :
          /\ result' = Some(r)
          /\ output' = IF r # None THEN "solution" ELSE "none"
    /\ pc' = "done"
    /\ UNCHANGED <<inputs, game, validWords, heap, bfsRet, pushed, popped, run,
                   firstResult>>

Next ==
    \/ CheckArgs
    \/ Construct
    \/ SolveStart
    \/ BfsFound
    \/ BfsPrune
    \/ BfsExpand
    \/ BfsExhausted
    \/ SolveReturn

Spec == Init /\ [][Next]_vars

(***************************************************************************)
(* Two runs of Grid::solve on one grid.                                    *)
(***************************************************************************)
\* Grid::solve is called again on the same Grid, with the same dictionary
\* and max_guesses; the first call's result is kept for comparison.
Rerun ==
    /\ pc = "done"
    /\ run = 1
    /\ result # None
    /\ firstResult' = result
    /\ run' = 2
    /\ pc' = "solve"
    /\ validWords' = <<>>
    /\ heap' = <<>>
    /\ bfsRet' = None
    /\ result' = None
    /\ pushed' = 0
    /\ popped' = 0
    /\ UNCHANGED <<inputs, game, output>>

NextTwice == Next \/ Rerun

SpecTwice == Init /\ [][NextTwice]_vars

InitFair ==
    /\ rawGrid \in RawGrids
    /\ maxGuessesArg \in MaxGuessesArgs
    /\ wordList \in SeqsUpTo(WordPool, MaxFairDict)
    /\ Fresh

\* main is a sequential program: it takes its next step as long as it has one.
FairSpec == InitFair /\ [][Next]_vars /\ WF_vars(Next)

(***************************************************************************)
(* What the claims speak of.                                               *)
(***************************************************************************)
Searched == pc \in {"bfs", "ret"} \/ result # None

Returned == pc = "done" /\ result # None

\* Grid::solve returned Some(chain)
ReturnedChain == Returned /\ result[1] # None

TheChain == result[1][1]

TheGrid == game[1]

\* The legal words of the dictionary: those that pass is_valid_word.
LegalWords == {w \in Range(wordList) : is_valid_word(side_lookup(TheGrid, Sides), w)}

Last(s) == s[Len(s)]

Chained(c) == \A i \in 1..(Len(c) - 1) : c[i + 1][1] = Last(c[i])

NoRepeat(c) == \A i, j \in DOMAIN c : i # j => c[i] # c[j]

LettersOf(c) == UNION {Range(c[i]) : i \in DOMAIN c}

Covers(c) == LettersOf(c) = TheGrid.all_letters

\* The chains of exactly k distinct words of W, chained head to tail.
RECURSIVE ChainsOfLen(_, _)
ChainsOfLen(W, k) ==
    IF k <= 0 THEN {}
    ELSE IF k = 1 THEN {<<w>> : w \in W}
    ELSE UNION {{Append(c, w) : w \in {x \in W : x[1] = Last(Last(c)) /\ x \notin Range(c)}} :
                   c \in ChainsOfLen(W, k - 1)}

\* The chains of at most n words.
ChainsUpTo(W, n) == UNION {ChainsOfLen(W, k) : k \in 1..Min(n, Cardinality(W))}

\* The covering chains of legal words of at most n words.
CoveringChains(n) == {c \in ChainsUpTo(LegalWords, n) : Covers(c)}

AllCoveringChains == CoveringChains(Cardinality(LegalWords))

(***************************************************************************)
(* C1: a chain returned by Grid::solve consists of legal words of the      *)
(* dictionary, each word starts with the last letter of the word before    *)
(* it, no word occurs twice, and the letters of its words are exactly the  *)
(* twelve letters of the grid.                                             *)
(***************************************************************************)
C1_ReturnedChainIsSolution ==
    ReturnedChain =>
        /\ \A i \in DOMAIN TheChain :
              /\ TheChain[i] \in Range(wordList)
              /\ \A lookup \in SideLookups(TheGrid) : is_valid_word(lookup, TheChain[i])
        /\ Chained(TheChain)
        /\ NoRepeat(TheChain)
        /\ LettersOf(TheChain) = TheGrid.all_letters
        /\ Cardinality(TheGrid.all_letters) = 12

\* A chain of three words was returned.
C1_Witness == ReturnedChain /\ Len(TheChain) = 3

(***************************************************************************)
(* C2: a returned chain has at most max_guesses words, and no entry with   *)
(* more than max_guesses words is ever in the heap.                        *)
(***************************************************************************)
C2_WithinMaxGuesses ==
    /\ ReturnedChain => Len(TheChain) <= TheGrid.max_guesses
    /\ \A i \in DOMAIN heap :
          heap[i][1] <= TheGrid.max_guesses /\ Len(heap[i][3]) <= TheGrid.max_guesses

(***************************************************************************)
(* C3: a returned chain is no longer than any covering chain of distinct   *)
(* legal words, chained head to tail, of at most max_guesses words.        *)
(***************************************************************************)
C3_Minimal ==
    ReturnedChain =>
        \A c \in CoveringChains(TheGrid.max_guesses) : Len(TheChain) <= Len(c)

\* A chain was returned although a longer covering chain exists in the bound.
C3_Witness ==
    /\ ReturnedChain
    /\ \E c \in CoveringChains(TheGrid.max_guesses) : Len(c) > Len(TheChain)

(***************************************************************************)
(* C4: Grid::solve returns None if and only if no covering chain of        *)
(* distinct legal words, chained head to tail, has at most max_guesses     *)
(* words.                                                                  *)
(***************************************************************************)
C4_NoneIffNoChain ==
    Returned => (result[1] = None <=> CoveringChains(TheGrid.max_guesses) = {})

(***************************************************************************)
(* C8: the search is started only for a raw grid of exactly four groups    *)
(* for which is_valid returned true; for any other grid the run ends with  *)
(* the invalid-grid message, without a search and without a result.        *)
(***************************************************************************)
C8_SearchOnlyValidGrid ==
    LET ok == /\ Len(split(rawGrid)) = 4
              /\ is_valid(Grid_new(to_uppercase(rawGrid), wordList, maxGuessesArg))
    IN  /\ (Searched \/ pc = "solve" \/ pushed > 0 \/ output \in {"solution", "none"}) => ok
        /\ (pc = "done" /\ ~ok) => /\ output = "invalid"
                                   /\ result = None
                                   /\ bfsRet = None
                                   /\ pushed = 0

\* A grid of four groups was built, is_valid refused it, and the run ended.
C8_Witness ==
    /\ pc = "done"
    /\ output = "invalid"
    /\ game # None
    /\ Len(split(rawGrid)) = 4

(***************************************************************************)
(* C9: a second run of Grid::solve on the same grid, dictionary and        *)
(* max_guesses returns what the first run returned, whatever the iteration *)
(* orders of the hash map and hash sets were in either run.                *)
(***************************************************************************)
C9_SameResultTwice ==
    (run = 2 /\ Returned) => result = firstResult

\* The second run returned a chain where two covering chains of the same
\* length exist.
C9_Witness ==
    /\ run = 2
    /\ ReturnedChain
    /\ \E c \in AllCoveringChains : c # TheChain /\ Len(c) = Len(TheChain)

(***************************************************************************)
(* C10: a returned chain is the lexicographically least of the covering    *)
(* chains of the smallest word count; so it is determined by the set of    *)
(* legal words, whatever their order and multiplicity in the dictionary.   *)
(***************************************************************************)
C10_LexLeastMinimal ==
    ReturnedChain =>
        /\ TheChain \in AllCoveringChains
        /\ \A c \in AllCoveringChains :
              \/ Len(TheChain) < Len(c)
              \/ Len(TheChain) = Len(c) /\ (c = TheChain \/ PathLess(TheChain, c))

\* A chain was returned although the dictionary lists another covering
\* chain of the same length first.
C10_Witness ==
    /\ ReturnedChain
    /\ Len(TheChain) = 2
    /\ \E c \in AllCoveringChains :
          /\ Len(c) = 2
          /\ c[1] = TheChain[1]
          /\ c[2] # TheChain[2]
          /\ \E i, j \in DOMAIN wordList :
                i < j /\ wordList[i] = c[2] /\ wordList[j] = TheChain[2]

(***************************************************************************)
(* C7: the search stops, and the pushes are bounded.                       *)
(***************************************************************************)
Max(a, b) == IF a > b THEN a ELSE b

\* The chains of exactly k entries of valid_words (positions, so an entry
\* listed twice counts twice) that carry pairwise distinct words, chained
\* head to tail.
RECURSIVE EntryChainsOfLen(_, _)
EntryChainsOfLen(vw, k) ==
    IF k <= 0 THEN {}
    ELSE IF k = 1 THEN {<<i>> : i \in DOMAIN vw}
    ELSE UNION {{Append(c, i) : i \in {j \in DOMAIN vw :
                                         /\ vw[j][1] = Last(vw[Last(c)])
                                         /\ \A m \in DOMAIN c : vw[c[m]] # vw[j]}} :
                   c \in EntryChainsOfLen(vw, k - 1)}

EntryChainsUpTo(vw, n) == UNION {EntryChainsOfLen(vw, k) : k \in 1..Min(n, Len(vw))}

SearchLimit == Max(1, TheGrid.max_guesses)

\* Every entry popped was pushed, and leaves the heap when it is popped.
PoppedOnce == popped <= pushed /\ Len(heap) = pushed - popped

\* C7 as claimed: the search stops, every pushed entry is popped at most
\* once, and there are never more pushes than chains of distinct legal words
\* of at most max(1, max_guesses) words.
C7_StopsPushesBoundedByWordChains ==
    /\ <>(pc = "done")
    /\ [](PoppedOnce)
    /\ [](Searched => pushed <= Cardinality(ChainsUpTo(Range(validWords), SearchLimit)))

\* C7 as amended: the search stops, every pushed entry is popped at most
\* once, and there are never more pushes than chains of entries of the list
\* of legal words (an entry listed twice counted twice) carrying distinct
\* words, of at most max(1, max_guesses) entries.
C7_StopsPushesBoundedByEntryChains ==
    /\ <>(pc = "done")
    /\ [](PoppedOnce)
    /\ [](Searched => pushed <= Cardinality(EntryChainsUpTo(validWords, SearchLimit)))

\* A search ended with the heap emptied after every pushed entry was popped,
\* entries pushed by expansions among them.
C7_Witness ==
    /\ pc = "done"
    /\ result = Some(None)
    /\ popped = pushed
    /\ pushed > Len(validWords)

(***************************************************************************)
(* Grid::new and Grid::is_valid called on a raw grid, as the tests do.     *)
(***************************************************************************)
GroupPool ==
    {Str(<<"A","B","C">>), Str(<<"D","E","F">>), Str(<<"G","H","I">>),
     Str(<<"J","K","L">>), Str(<<"A","B">>), Str(<<"D","E","F","C">>), <<>>}

\* [String]::join(",")
RECURSIVE join(_)
join(groups) ==
    IF Len(groups) = 1 THEN groups[1]
    ELSE groups[1] \o <<Comma>> \o join(Tail(groups))

UnitGrids == {join(gs) : gs \in UNION {[1..k -> GroupPool] : k \in 1..MaxGroups}}

UnitFresh ==
    /\ validWords = <<>>
    /\ heap = <<>>
    /\ bfsRet = None
    /\ result = None
    /\ output = ""
    /\ pushed = 0
    /\ popped = 0
    /\ run = 1
    /\ firstResult = None

InitIsValid ==
    /\ rawGrid \in UnitGrids
    /\ maxGuessesArg = None
    /\ wordList = <<>>
    /\ pc = "unit"
    /\ game = None
    /\ UnitFresh

\* Grid::new(grid, EMPTY_DICTIONARY, None).is_valid(); result holds the
\* value returned.
CallIsValid ==
    /\ pc = "unit"
    /\ game = None
    /\ \E g \in {Grid_new(rawGrid, wordList, maxGuessesArg)} :
          /\ game' = Some(g)
          /\ result' = Some(is_valid(g))
    /\ pc' = "unit_done"
    /\ UNCHANGED <<inputs, validWords, heap, bfsRet, output, pushed, popped, run,
                   firstResult>>

SpecIsValid == InitIsValid /\ [][CallIsValid]_vars

Groups == split(rawGrid)

\* The letters at the positions of the first n groups are pairwise distinct.
PairwiseDistinct(n) ==
    \A k1, k2 \in 1..n : \A i1 \in DOMAIN Groups[k1] : \A i2 \in DOMAIN Groups[k2] :
        (k1 # k2 \/ i1 # i2) => Groups[k1][i1] # Groups[k2][i2]

\* C5 as claimed: is_valid returns true if and only if the raw grid has
\* exactly 4 comma-separated groups, each of exactly 3 letters, and the 12
\* letters are pairwise distinct.
C5_ValidIffFourGroups ==
    pc = "unit_done" =>
        (result[1] <=> /\ Len(Groups) = 4
                       /\ \A k \in 1..4 : Len(Groups[k]) = 3
                       /\ PairwiseDistinct(4))

\* C5 as amended: is_valid returns true if and only if the raw grid has at
\* least 4 comma-separated groups, each of the first 4 has exactly 3
\* letters, and the 12 letters of the first 4 groups are pairwise distinct.
C5_ValidIffFirstFourGroups ==
    pc = "unit_done" =>
        (result[1] <=> /\ Len(Groups) >= 4
                       /\ \A k \in 1..4 : Len(Groups[k]) = 3
                       /\ PairwiseDistinct(4))

\* is_valid returned true for a raw grid of more than four groups.
C5_Witness == pc = "unit_done" /\ result = Some(TRUE) /\ Len(Groups) > 4

(***************************************************************************)
(* Grid::generate_words called on a valid grid.                            *)
(***************************************************************************)
UnitWords ==
    {Str(<<"B","E","G">>), Str(<<"A","C","E">>), Str(<<"X","Y","Z">>),
     Str(<<"F","I","J">>), Str(<<"A","D">>), Str(<<"A","D","A">>),
     Str(<<"Eacute","D">>), Str(<<"Eacute","D","G">>)}

ValidGrids == {GridABC, GridEacute}

InitWords ==
    /\ rawGrid \in ValidGrids
    /\ maxGuessesArg = None
    /\ wordList \in SeqsUpTo(UnitWords, MaxUnitDict)
    /\ pc = "unit"
    /\ game = Some(Grid_new(rawGrid, wordList, maxGuessesArg))
    /\ UnitFresh

\* grid.generate_words(); validWords holds the value returned.
CallGenerateWords ==
    /\ pc = "unit"
    /\ game # None
    /\ validWords' \in {generate_words(game[1], lookup) : lookup \in SideLookups(game[1])}
    /\ pc' = "unit_done"
    /\ UNCHANGED <<inputs, game, heap, bfsRet, result, output, pushed, popped, run,
                   firstResult>>

SpecWords == InitWords /\ [][CallGenerateWords]_vars

\* The sides of the grid that hold a letter.
SidesOf(letter) == {s \in DOMAIN TheGrid.words : letter \in Range(TheGrid.words[s])}

\* A word of at least 3 letters, each on some side of the grid, every two
\* adjacent letters on different sides.
LegalAsClaimed(w) ==
    /\ Len(w) >= 3
    /\ \A i \in DOMAIN w : SidesOf(w[i]) # {}
    /\ \A i \in 1..(Len(w) - 1) : SidesOf(w[i]) \cap SidesOf(w[i + 1]) = {}

\* C6: generate_words returns the words of the dictionary, in order and
\* with multiplicity, that have at least 3 letters, all on the grid, no two
\* adjacent letters on one side.
C6_GeneratesExactlyLegalWords ==
    pc = "unit_done" => validWords = SelectSeq(wordList, LegalAsClaimed)

=============================================================================
